---- MODULE Spec2Model ----
(***************************************************************************)
(* Model of src/src/file_parsers.py (IsoQuant): the eccLib capability      *)
(* probe run at module import, the two FASTA reader adapters               *)
(* (PyfaidxReader, EccLibFASTAReader), the EccLibChromosomeRecord view and *)
(* the factory functions get_fasta_reader / create_fasta_reader.           *)
(*                                                                         *)
(* Python values are encoded as follows.                                   *)
(*   - an optional value (None or v) is the set {} or {v};                 *)
(*   - a str holding a sequence is a TLA+ sequence of one-letter strings;  *)
(*   - a dict is a function whose DOMAIN is the set of its keys;           *)
(*   - an exception is named by a string, "None" when nothing was raised.  *)
(***************************************************************************)
EXTENDS Integers, Sequences, FiniteSets, TLC

\* Positions passed as start / end / slice bounds range over 0..MaxPos and
\* integer keys over -MaxPos..MaxPos; the longest sequence has 2 letters.
MaxPos == 2

None == {}
Some(v) == {v}
IsNone(x) == x = {}
Val(x) == CHOOSE v \in x : TRUE

Min(a, b) == IF a < b THEN a ELSE b

\* ---------------------------------------------------------------------
\* The environment: reference files on disk and what the engines do with
\* them.  A file has its records in file order, the sequence of each
\* record, whether the engines can open / parse it at all, and the
\* records for which eccLib's dump() raises.
\* ---------------------------------------------------------------------
ChrIds == {"chr1", "chr2", "chrUn"}

Paths == {"ref1.fa", "ref2.fa", "trunc.fa", "broken.fa"}

IndexPaths == {None, Some(""), Some("ref.fai")}

FileOrder(path) ==
    CASE path = "ref1.fa"  -> <<"chr1", "chr2">>
      [] path = "ref2.fa"  -> <<"chr1">>
      [] path = "trunc.fa" -> <<"chr1", "chr2">>
      [] OTHER             -> <<>>

FileIds(path) == {FileOrder(path)[i] : i \in 1..Len(FileOrder(path))}

FileSeq(path, c) ==
    CASE path = "ref1.fa" /\ c = "chr1"  -> <<"A", "C">>
      [] path = "ref1.fa" /\ c = "chr2"  -> <<"T">>
      [] path = "ref2.fa" /\ c = "chr1"  -> <<"G">>
      [] path = "trunc.fa" /\ c = "chr1" -> <<"C", "A">>
      [] path = "trunc.fa" /\ c = "chr2" -> <<"G">>
      [] OTHER                           -> <<>>

FileParses(path) == path # "broken.fa"

DumpRaises(path, c) == path = "trunc.fa" /\ c = "chr2"

\* ---------------------------------------------------------------------
\* Log lines (logger.info / logger.warning calls of the module).
\* ---------------------------------------------------------------------
LogUsingEccLib == [level |-> "INFO", msg |-> "Using eccLib for FASTA access", arg |-> "None"]

LogNotWorking ==
    [level |-> "WARNING",
     msg |-> "eccLib is installed but not working correctly on this platform, falling back to pyfaidx",
     arg |-> "None"]

LogNotInstalled ==
    [level |-> "WARNING", msg |-> "eccLib requested but not installed, falling back to pyfaidx",
     arg |-> "None"]

LogParsingFailed(e) == [level |-> "WARNING", msg |-> "eccLib FASTA parsing failed", arg |-> e]

\* ---------------------------------------------------------------------
\* Python slicing and indexing of a str.
\* ---------------------------------------------------------------------
\* seq[lo:hi] for 0 <= lo, 0 <= hi (both clamped to len(seq))
SliceFromTo(seq, lo, hi) ==
    LET l == Min(lo, Len(seq))
        h == Min(hi, Len(seq))
    IN  IF l >= h THEN <<>> ELSE SubSeq(seq, l + 1, h)

\* seq[key] for an integer key: IndexError outside -len..len-1
IndexInRange(seq, key) == -Len(seq) <= key /\ key < Len(seq)

CharAt(seq, key) == IF key >= 0 THEN seq[key + 1] ELSE seq[Len(seq) + key + 1]

\* ---------------------------------------------------------------------
\* Values
\* ---------------------------------------------------------------------
EmptyDict == [c \in {} |-> <<>>]

DictSet(d, k, v) == [c \in DOMAIN d \cup {k} |-> IF c = k THEN v ELSE d[c]]

NoReader ==
    [kind |-> "none", fasta |-> None, fasta_data |-> None, sequence_cache |-> EmptyDict]

\* PyfaidxReader.__init__
PyfaidxReader ==
    [kind |-> "pyfaidx", fasta |-> None, fasta_data |-> None, sequence_cache |-> EmptyDict]

\* EccLibFASTAReader.__init__
EccLibFASTAReader ==
    [kind |-> "ecclib", fasta |-> None, fasta_data |-> None, sequence_cache |-> EmptyDict]

\* The outcome of a method call: the instance afterwards, the exception
\* raised ("None" if the call returned), the returned str / list (val) or
\* int (num), and the log lines emitted.
Outcome(r, exc, val, num, log) ==
    [reader |-> r, exc |-> exc, val |-> val, num |-> num, log |-> log]

Truthy(opt) == ~IsNone(opt) /\ Val(opt) # ""

\* ---------------------------------------------------------------------
\* Capability probe (module level) and is_ecclib_available
\* ---------------------------------------------------------------------
\* a probe that forgets the sanity check
is_ecclib_available_ignoring_working(available, working) == available

is_ecclib_available(available, working) == available /\ working

\* ---------------------------------------------------------------------
\* PyfaidxReader
\* ---------------------------------------------------------------------
\* pyfaidx.Fasta(fasta_path[, indexname=...]): the handle, or an error
PyLoad(r, fasta_path, index_path) ==
    LET handle == IF Truthy(index_path)
                  THEN [path |-> fasta_path, indexname |-> index_path]
                  ELSE [path |-> fasta_path, indexname |-> None]
    IN  IF FileParses(fasta_path)
        THEN Outcome([r EXCEPT !.fasta = Some(handle)], "None", <<>>, 0, <<>>)
        ELSE Outcome(r, "FastaLoadError", <<>>, 0, <<>>)

\* the four branches of PyfaidxReader.get_sequence over the record's
\* native slicing
PySlice(seq, start, end) ==
    IF IsNone(start) /\ IsNone(end) THEN SliceFromTo(seq, 0, Len(seq))
    ELSE IF ~IsNone(start) /\ ~IsNone(end) THEN SliceFromTo(seq, Val(start), Val(end))
    ELSE IF ~IsNone(start) THEN SliceFromTo(seq, Val(start), Len(seq))
    ELSE SliceFromTo(seq, 0, Val(end))

\* self.fasta[chr_id]: "None" if the record exists, else the exception
PyLookup(r, chr_id) ==
    IF IsNone(r.fasta) THEN "TypeError"
    ELSE IF chr_id \notin FileIds(Val(r.fasta).path) THEN "KeyError"
    ELSE "None"

PyGetSequence(r, chr_id, start, end) ==
    IF PyLookup(r, chr_id) # "None"
    THEN Outcome(r, PyLookup(r, chr_id), <<>>, 0, <<>>)
    ELSE Outcome(r, "None", PySlice(FileSeq(Val(r.fasta).path, chr_id), start, end), 0, <<>>)

PyGetChromosomeIds(r) ==
    IF IsNone(r.fasta) THEN Outcome(r, "AttributeError", <<>>, 0, <<>>)
    ELSE Outcome(r, "None", FileOrder(Val(r.fasta).path), 0, <<>>)

PyGetChromosomeLength(r, chr_id) ==
    IF PyLookup(r, chr_id) # "None"
    THEN Outcome(r, PyLookup(r, chr_id), <<>>, 0, <<>>)
    ELSE Outcome(r, "None", <<>>, Len(FileSeq(Val(r.fasta).path, chr_id)), <<>>)

\* ---------------------------------------------------------------------
\* EccLibFASTAReader
\* ---------------------------------------------------------------------
\* self.fasta_data[chr_id].dump(): "None" if it yields the sequence
EccDumpExc(r, chr_id) ==
    IF IsNone(r.fasta_data) THEN "TypeError"
    ELSE IF chr_id \notin FileIds(Val(r.fasta_data)) THEN "KeyError"
    ELSE IF DumpRaises(Val(r.fasta_data), chr_id) THEN "DumpError"
    ELSE "None"

EccDump(r, chr_id) == FileSeq(Val(r.fasta_data), chr_id)

\* the pre-caching loop of load, from position i of the key order on:
\* the reader when the loop ends, and the exception that ended it
RECURSIVE PreCache(_, _, _)
PreCache(r, order, i) ==
    IF i > Len(order) THEN [reader |-> r, exc |-> "None"]
    ELSE IF EccDumpExc(r, order[i]) # "None"
         THEN [reader |-> r, exc |-> EccDumpExc(r, order[i])]
         ELSE PreCache([r EXCEPT !.sequence_cache =
                            DictSet(r.sequence_cache, order[i], EccDump(r, order[i]))],
                       order, i + 1)

\* the body of load: parseFASTA, then the pre-caching loop, inside the try
EccParseAndCache(r, fasta_path) ==
    IF ~FileParses(fasta_path)
    THEN Outcome(r, "ParseError", <<>>, 0, <<LogParsingFailed("ParseError")>>)
    ELSE LET parsed == [r EXCEPT !.fasta_data = Some(fasta_path)]
             done == PreCache(parsed, FileOrder(fasta_path), 1)
         IN  IF done.exc = "None"
             THEN Outcome(done.reader, "None", <<>>, 0, <<>>)
             ELSE Outcome(done.reader, done.exc, <<>>, 0, <<LogParsingFailed(done.exc)>>)

\* a load that hands a supplied index path on to parseFASTA, which takes
\* one argument
EccLoad_passing_index(r, fasta_path, index_path) ==
    IF IsNone(index_path) THEN EccParseAndCache(r, fasta_path)
    ELSE Outcome(r, "TypeError", <<>>, 0, <<LogParsingFailed("TypeError")>>)

\* index_path is accepted and not used
EccLoad(r, fasta_path, index_path) == EccParseAndCache(r, fasta_path)

\* the branches taken on truthiness ("if not start and not end"), so that a
\* bound of 0 counts as absent
EccSlice_truthiness(seq, start, end) ==
    LET noStart == IsNone(start) \/ Val(start) = 0
        noEnd == IsNone(end) \/ Val(end) = 0
    IN  IF noStart /\ noEnd THEN seq
        ELSE IF ~noStart /\ ~noEnd THEN SliceFromTo(seq, Val(start), Val(end))
        ELSE IF ~noStart THEN SliceFromTo(seq, Val(start), Len(seq))
        ELSE SliceFromTo(seq, 0, Val(end))

\* the four branches of EccLibFASTAReader.get_sequence over str slicing
EccSlice(seq, start, end) ==
    IF IsNone(start) /\ IsNone(end) THEN seq
    ELSE IF ~IsNone(start) /\ ~IsNone(end) THEN SliceFromTo(seq, Val(start), Val(end))
    ELSE IF ~IsNone(start) THEN SliceFromTo(seq, Val(start), Len(seq))
    ELSE SliceFromTo(seq, 0, Val(end))

\* self._sequence_cache.get(chr_id) is None
CacheMiss(r, chr_id) == chr_id \notin DOMAIN r.sequence_cache

\* the lookup shared by get_sequence and get_chromosome_length: the
\* reader afterwards, the exception, and the full sequence found
EccFetch(r, chr_id) ==
    IF ~CacheMiss(r, chr_id)
    THEN [reader |-> r, exc |-> "None", seq |-> r.sequence_cache[chr_id]]
    ELSE IF EccDumpExc(r, chr_id) # "None"
         THEN [reader |-> r, exc |-> EccDumpExc(r, chr_id), seq |-> <<>>]
         ELSE [reader |-> [r EXCEPT !.sequence_cache =
                               DictSet(r.sequence_cache, chr_id, EccDump(r, chr_id))],
               exc |-> "None", seq |-> EccDump(r, chr_id)]

EccGetSequence(r, chr_id, start, end) ==
    LET f == EccFetch(r, chr_id)
    IN  IF f.exc # "None" THEN Outcome(f.reader, f.exc, <<>>, 0, <<>>)
        ELSE Outcome(f.reader, "None", EccSlice(f.seq, start, end), 0, <<>>)

EccGetChromosomeIds(r) ==
    IF IsNone(r.fasta_data) THEN Outcome(r, "AttributeError", <<>>, 0, <<>>)
    ELSE Outcome(r, "None", FileOrder(Val(r.fasta_data)), 0, <<>>)

EccGetChromosomeLength(r, chr_id) ==
    LET f == EccFetch(r, chr_id)
    IN  IF f.exc # "None" THEN Outcome(f.reader, f.exc, <<>>, 0, <<>>)
        ELSE Outcome(f.reader, "None", <<>>, Len(f.seq), <<>>)

\* ---------------------------------------------------------------------
\* FASTAReaderInterface: dispatch on the concrete class
\* ---------------------------------------------------------------------
load(r, fasta_path, index_path) ==
    IF r.kind = "pyfaidx" THEN PyLoad(r, fasta_path, index_path)
    ELSE EccLoad(r, fasta_path, index_path)

get_sequence(r, chr_id, start, end) ==
    IF r.kind = "pyfaidx" THEN PyGetSequence(r, chr_id, start, end)
    ELSE EccGetSequence(r, chr_id, start, end)

get_chromosome_ids(r) ==
    IF r.kind = "pyfaidx" THEN PyGetChromosomeIds(r) ELSE EccGetChromosomeIds(r)

get_chromosome_length(r, chr_id) ==
    IF r.kind = "pyfaidx" THEN PyGetChromosomeLength(r, chr_id)
    ELSE EccGetChromosomeLength(r, chr_id)

\* ---------------------------------------------------------------------
\* EccLibChromosomeRecord
\* ---------------------------------------------------------------------
OptPos == {None} \cup {Some(n) : n \in 0..MaxPos}

Keys ==
    {[type |-> "slice", start |-> s, stop |-> e, val |-> 0] : s \in OptPos, e \in OptPos}
    \cup {[type |-> "int", start |-> None, stop |-> None, val |-> k] : k \in (-MaxPos)..MaxPos}
    \cup {[type |-> t, start |-> None, stop |-> None, val |-> 0] : t \in {"str", "float", "NoneType"}}

NoKey == [type |-> "none", start |-> None, stop |-> None, val |-> 0]

NoRecord == [kind |-> "none", chr_id |-> ""]

\* get_chromosome_record: the native record of pyfaidx (self.fasta[chr_id]),
\* or an EccLibChromosomeRecord(self, chr_id)
get_chromosome_record(r, chr_id) ==
    IF r.kind = "pyfaidx"
    THEN IF PyLookup(r, chr_id) # "None"
         THEN [record |-> NoRecord, exc |-> PyLookup(r, chr_id)]
         ELSE [record |-> [kind |-> "pyfaidx", chr_id |-> chr_id], exc |-> "None"]
    ELSE [record |-> [kind |-> "ecclib", chr_id |-> chr_id], exc |-> "None"]

\* a __getitem__ without the final else: any other key falls through and
\* None is returned
RecordGetItem_without_else(r, chr_id, key) ==
    IF key.type = "slice" THEN EccGetSequence(r, chr_id, key.start, key.stop)
    ELSE IF key.type = "int"
         THEN LET o == EccGetSequence(r, chr_id, None, None)
              IN  IF o.exc # "None" THEN o
                  ELSE IF ~IndexInRange(o.val, key.val)
                       THEN Outcome(o.reader, "IndexError", <<>>, 0, <<>>)
                       ELSE Outcome(o.reader, "None", <<CharAt(o.val, key.val)>>, 0, <<>>)
         ELSE Outcome(r, "None", <<>>, 0, <<>>)

\* EccLibChromosomeRecord.__getitem__; a raised TypeError carries the
\* parts of its message in val
RecordGetItem(r, chr_id, key) ==
    IF key.type = "slice" THEN EccGetSequence(r, chr_id, key.start, key.stop)
    ELSE IF key.type = "int"
         THEN LET o == EccGetSequence(r, chr_id, None, None)
              IN  IF o.exc # "None" THEN o
                  ELSE IF ~IndexInRange(o.val, key.val)
                       THEN Outcome(o.reader, "IndexError", <<>>, 0, <<>>)
                       ELSE Outcome(o.reader, "None", <<CharAt(o.val, key.val)>>, 0, <<>>)
         ELSE Outcome(r, "TypeError",
                      <<"indices must be integers or slices, not ", key.type>>, 0, <<>>)

\* EccLibChromosomeRecord.__len__
RecordLen(r, chr_id) == EccGetChromosomeLength(r, chr_id)

\* EccLibChromosomeRecord.__str__
RecordStr(r, chr_id) == EccGetSequence(r, chr_id, None, None)

\* ---------------------------------------------------------------------
\* Factory functions
\* ---------------------------------------------------------------------
\* a selector whose fallback reason tests ECCLIB_WORKING, not ECCLIB_AVAILABLE
get_fasta_reader_wrong_reason(use_ecclib, available, working) ==
    IF use_ecclib
    THEN IF is_ecclib_available(available, working)
         THEN [reader |-> EccLibFASTAReader, log |-> <<LogUsingEccLib>>]
         ELSE IF working
              THEN [reader |-> PyfaidxReader, log |-> <<LogNotWorking>>]
              ELSE [reader |-> PyfaidxReader, log |-> <<LogNotInstalled>>]
    ELSE [reader |-> PyfaidxReader, log |-> <<>>]

get_fasta_reader(use_ecclib, available, working) ==
    IF use_ecclib
    THEN IF is_ecclib_available(available, working)
         THEN [reader |-> EccLibFASTAReader, log |-> <<LogUsingEccLib>>]
         ELSE IF available
              THEN [reader |-> PyfaidxReader, log |-> <<LogNotWorking>>]
              ELSE [reader |-> PyfaidxReader, log |-> <<LogNotInstalled>>]
    ELSE [reader |-> PyfaidxReader, log |-> <<>>]

\* a create_fasta_reader that answers a failed eccLib load by loading the
\* file with pyfaidx
create_fasta_reader_with_retry(fasta_path, index_path, use_ecclib, available, working) ==
    LET sel == get_fasta_reader(use_ecclib, available, working)
        res == load(sel.reader, fasta_path, index_path)
        again == load(PyfaidxReader, fasta_path, index_path)
    IN  IF res.exc # "None" /\ sel.reader.kind = "ecclib"
        THEN [reader |-> again.reader, exc |-> again.exc,
              log |-> sel.log \o res.log \o again.log, loads |-> <<"ecclib", "pyfaidx">>]
        ELSE [reader |-> res.reader, exc |-> res.exc, log |-> sel.log \o res.log,
              loads |-> <<sel.reader.kind>>]

\* create_fasta_reader: the reader after load, the exception that left the
\* function ("None" if it returned the reader), the log lines, and the
\* backends load was called on, in call order
create_fasta_reader(fasta_path, index_path, use_ecclib, available, working) ==
    LET sel == get_fasta_reader(use_ecclib, available, working)
        res == load(sel.reader, fasta_path, index_path)
    IN  [reader |-> res.reader, exc |-> res.exc, log |-> sel.log \o res.log,
         loads |-> <<sel.reader.kind>>]

\* ---------------------------------------------------------------------
\* Module import: the probe of lines 30-46
\* ---------------------------------------------------------------------
ImportOutcomes == {"ok", "ImportError", "OSError"}

\* imp: what "import eccLib" does; hasFASTA / hasGTF: what the hasattr
\* checks answer; attrRaises: the check itself raises an Exception
Probe(imp, hasFASTA, hasGTF, attrRaises) ==
    IF imp = "ImportError"
    THEN [pc |-> "imported", available |-> FALSE, working |-> FALSE]
    ELSE IF imp # "ok"
         THEN [pc |-> "raised", available |-> FALSE, working |-> FALSE]
         ELSE [pc |-> "imported", available |-> TRUE,
               working |-> IF attrRaises THEN FALSE ELSE hasFASTA /\ hasGTF]

VARIABLES
    modulePc,          \* "start" | "imported" | "raised": import of file_parsers
    ECCLIB_AVAILABLE,  \* module global
    ECCLIB_WORKING,    \* module global
    reader,            \* the reader instance the caller holds
    record,            \* the chromosome record the caller holds
    loadHist,          \* history of load calls on the held reader
    ret,               \* the last call: operation, arguments, result
    emitted            \* the log lines the last call emitted

\* loadHist.last: outcome of the latest load on the held reader ("new" if
\* none); loadHist.ever: some load on it has returned normally
vars == <<modulePc, ECCLIB_AVAILABLE, ECCLIB_WORKING, reader, record, loadHist, ret, emitted>>

NewHist == [last |-> "new", ever |-> FALSE]

HistAfter(h, exc) ==
    IF exc = "None" THEN [last |-> "ok", ever |-> TRUE] ELSE [h EXCEPT !.last = "raised"]

BaseRet(op) ==
    [op |-> op, kind |-> "none", use_ecclib |-> FALSE, chr_id |-> "", start |-> None,
     end |-> None, path |-> "", index_path |-> None, key |-> NoKey, exc |-> "None",
     val |-> <<>>, num |-> 0, loads |-> <<>>]

Init ==
    /\ modulePc = "start"
    /\ ECCLIB_AVAILABLE = FALSE
    /\ ECCLIB_WORKING = FALSE
    /\ reader = NoReader
    /\ record = NoRecord
    /\ loadHist = NewHist
    /\ ret = BaseRet("none")
    /\ emitted = <<>>

ImportModule ==
    /\ modulePc = "start"
    /\ \E imp \in ImportOutcomes, hasFASTA \in BOOLEAN, hasGTF \in BOOLEAN, attrRaises \in BOOLEAN :
         LET p == Probe(imp, hasFASTA, hasGTF, attrRaises)
         IN  /\ modulePc' = p.pc
             /\ ECCLIB_AVAILABLE' = p.available
             /\ ECCLIB_WORKING' = p.working
             /\ ret' = [BaseRet("import") EXCEPT !.exc = IF p.pc = "raised" THEN imp ELSE "None"]
    /\ emitted' = <<>>
    /\ UNCHANGED <<reader, record, loadHist>>

Call_get_fasta_reader ==
    /\ modulePc = "imported"
    /\ \E use_ecclib \in BOOLEAN :
         LET sel == get_fasta_reader(use_ecclib, ECCLIB_AVAILABLE, ECCLIB_WORKING)
         IN  /\ reader' = sel.reader
             /\ emitted' = sel.log
             /\ ret' = [BaseRet("get_fasta_reader") EXCEPT
                            !.use_ecclib = use_ecclib, !.kind = sel.reader.kind]
    /\ record' = NoRecord
    /\ loadHist' = NewHist
    /\ UNCHANGED <<modulePc, ECCLIB_AVAILABLE, ECCLIB_WORKING>>

Call_create_fasta_reader ==
    /\ modulePc = "imported"
    /\ \E fasta_path \in Paths, index_path \in IndexPaths, use_ecclib \in BOOLEAN :
         LET c == create_fasta_reader(fasta_path, index_path, use_ecclib,
                                      ECCLIB_AVAILABLE, ECCLIB_WORKING)
         IN  /\ emitted' = c.log
             /\ ret' = [BaseRet("create_fasta_reader") EXCEPT
                            !.use_ecclib = use_ecclib, !.path = fasta_path,
                            !.index_path = index_path, !.exc = c.exc, !.loads = c.loads,
                            !.kind = IF c.exc = "None" THEN c.reader.kind ELSE "none"]
             /\ IF c.exc = "None"
                THEN /\ reader' = c.reader
                     /\ record' = NoRecord
                     /\ loadHist' = HistAfter(NewHist, "None")
                ELSE UNCHANGED <<reader, record, loadHist>>
    /\ UNCHANGED <<modulePc, ECCLIB_AVAILABLE, ECCLIB_WORKING>>

Call_load ==
    /\ reader.kind # "none"
    /\ \E fasta_path \in Paths, index_path \in IndexPaths :
         LET o == load(reader, fasta_path, index_path)
         IN  /\ reader' = o.reader
             /\ emitted' = o.log
             /\ loadHist' = HistAfter(loadHist, o.exc)
             /\ ret' = [BaseRet("load") EXCEPT
                            !.kind = reader.kind, !.path = fasta_path,
                            !.index_path = index_path, !.exc = o.exc,
                            !.loads = <<reader.kind>>]
    /\ UNCHANGED <<modulePc, ECCLIB_AVAILABLE, ECCLIB_WORKING, record>>

Call_get_sequence ==
    /\ reader.kind # "none"
    /\ \E chr_id \in ChrIds, start \in OptPos, end \in OptPos :
         LET o == get_sequence(reader, chr_id, start, end)
         IN  /\ reader' = o.reader
             /\ ret' = [BaseRet("get_sequence") EXCEPT
                            !.kind = reader.kind, !.chr_id = chr_id, !.start = start,
                            !.end = end, !.exc = o.exc, !.val = o.val]
    /\ emitted' = <<>>
    /\ UNCHANGED <<modulePc, ECCLIB_AVAILABLE, ECCLIB_WORKING, record, loadHist>>

\* get_chromosome_ids, and keys (the same list as a view)
Call_get_chromosome_ids ==
    /\ reader.kind # "none"
    /\ \E op \in {"get_chromosome_ids", "keys"} :
         LET o == get_chromosome_ids(reader)
         IN  ret' = [BaseRet(op) EXCEPT !.kind = reader.kind, !.exc = o.exc, !.val = o.val]
    /\ emitted' = <<>>
    /\ UNCHANGED <<modulePc, ECCLIB_AVAILABLE, ECCLIB_WORKING, reader, record, loadHist>>

Call_get_chromosome_length ==
    /\ reader.kind # "none"
    /\ \E chr_id \in ChrIds :
         LET o == get_chromosome_length(reader, chr_id)
         IN  /\ reader' = o.reader
             /\ ret' = [BaseRet("get_chromosome_length") EXCEPT
                            !.kind = reader.kind, !.chr_id = chr_id, !.exc = o.exc,
                            !.num = o.num]
    /\ emitted' = <<>>
    /\ UNCHANGED <<modulePc, ECCLIB_AVAILABLE, ECCLIB_WORKING, record, loadHist>>

\* get_chromosome_record, and reader[chr_id] (FASTAReaderInterface.__getitem__)
Call_get_chromosome_record ==
    /\ reader.kind # "none"
    /\ \E chr_id \in ChrIds :
         LET o == get_chromosome_record(reader, chr_id)
         IN  /\ record' = IF o.exc = "None" THEN o.record ELSE record
             /\ ret' = [BaseRet("get_chromosome_record") EXCEPT
                            !.kind = reader.kind, !.chr_id = chr_id, !.exc = o.exc]
    /\ emitted' = <<>>
    /\ UNCHANGED <<modulePc, ECCLIB_AVAILABLE, ECCLIB_WORKING, reader, loadHist>>

Call_record_getitem ==
    /\ record.kind = "ecclib"
    /\ \E key \in Keys :
         LET o == RecordGetItem(reader, record.chr_id, key)
         IN  /\ reader' = o.reader
             /\ ret' = [BaseRet("record_getitem") EXCEPT
                            !.kind = reader.kind, !.chr_id = record.chr_id, !.key = key,
                            !.exc = o.exc, !.val = o.val]
    /\ emitted' = <<>>
    /\ UNCHANGED <<modulePc, ECCLIB_AVAILABLE, ECCLIB_WORKING, record, loadHist>>

\* len(record) and str(record)
Call_record_len ==
    /\ record.kind = "ecclib"
    /\ LET o == RecordLen(reader, record.chr_id)
       IN  /\ reader' = o.reader
           /\ ret' = [BaseRet("record_len") EXCEPT
                          !.kind = reader.kind, !.chr_id = record.chr_id, !.exc = o.exc,
                          !.num = o.num]
    /\ emitted' = <<>>
    /\ UNCHANGED <<modulePc, ECCLIB_AVAILABLE, ECCLIB_WORKING, record, loadHist>>

Call_record_str ==
    /\ record.kind = "ecclib"
    /\ LET o == RecordStr(reader, record.chr_id)
       IN  /\ reader' = o.reader
           /\ ret' = [BaseRet("record_str") EXCEPT
                          !.kind = reader.kind, !.chr_id = record.chr_id, !.exc = o.exc,
                          !.val = o.val]
    /\ emitted' = <<>>
    /\ UNCHANGED <<modulePc, ECCLIB_AVAILABLE, ECCLIB_WORKING, record, loadHist>>

Next ==
    \/ ImportModule
    \/ Call_get_fasta_reader
    \/ Call_create_fasta_reader
    \/ Call_load
    \/ Call_get_sequence
    \/ Call_get_chromosome_ids
    \/ Call_get_chromosome_length
    \/ Call_get_chromosome_record
    \/ Call_record_getitem
    \/ Call_record_len
    \/ Call_record_str

Spec == Init /\ [][Next]_vars


\* =====================================================================
\* Properties
\* =====================================================================
\* the reference file the held reader currently enumerates
CurrentFile(r) == IF r.kind = "pyfaidx" THEN Val(r.fasta).path ELSE Val(r.fasta_data)

Elements(seq) == {seq[i] : i \in 1..Len(seq)}

\* 0 <= start <= end <= len(seq), each bound absent or present
ValidRange(seq, start, end) ==
    /\ IsNone(start) \/ Val(start) \in 0..Len(seq)
    /\ IsNone(end) \/ Val(end) \in 0..Len(seq)
    /\ (~IsNone(start) /\ ~IsNone(end)) => Val(start) <= Val(end)

\* seq[start:end] with open bounds, on a valid range: the letters at the
\* 0-based offsets start .. end-1
OpenSlice(seq, start, end) ==
    LET lo == IF IsNone(start) THEN 0 ELSE Val(start)
        hi == IF IsNone(end) THEN Len(seq) ELSE Val(end)
    IN  [i \in 1..(hi - lo) |-> seq[lo + i]]

FallbackWarnings(log) == {i \in 1..Len(log) : log[i] \in {LogNotInstalled, LogNotWorking}}

\* C1: get_fasta_reader returns an EccLibFASTAReader if and only if
\* use_ecclib is true and the probe state is available and working; in
\* every other case it returns a PyfaidxReader.
C1_SelectsEccLibIffRequestedAvailableWorking ==
    ret.op = "get_fasta_reader" =>
        /\ reader.kind \in {"ecclib", "pyfaidx"}
        /\ reader.kind = "ecclib" <=> (ret.use_ecclib /\ ECCLIB_AVAILABLE /\ ECCLIB_WORKING)
        /\ IsNone(reader.fasta) /\ IsNone(reader.fasta_data)

C1_Witness_EccLibSelected ==
    /\ ret.op = "get_fasta_reader" /\ ret.use_ecclib
    /\ ECCLIB_AVAILABLE /\ ECCLIB_WORKING
    /\ reader.kind = "ecclib"

C4_ConsistentOnceLoaded ==
    loadHist.ever =>
        /\ get_chromosome_ids(reader).exc = "None"
        /\ \A c \in ChrIds :
             /\ get_sequence(reader, c, None, None).exc = "None"
                   <=> c \in Elements(get_chromosome_ids(reader).val)
             /\ get_sequence(reader, c, None, None).exc = "None" =>
                   /\ get_chromosome_length(reader, c).exc = "None"
                   /\ get_chromosome_length(reader, c).num
                          = Len(get_sequence(reader, c, None, None).val)
                   /\ get_sequence(reader, c, None, None).val
                          = FileSeq(CurrentFile(reader), c)

\* C5: load has no partial success: on an instance whose load raised and on
\* which no load ever returned, no later get_chromosome_ids, keys,
\* get_chromosome_length or get_sequence call returns data.
C5_UnusableAfterFailedLoad ==
    (/\ ret.op \in {"get_chromosome_ids", "keys", "get_chromosome_length", "get_sequence"}
     /\ loadHist.last = "raised"
     /\ ~loadHist.ever)
    => ret.exc # "None"

\* C6: the capability probe never surfaces an exception: whatever importing
\* eccLib or checking its entry points does, the module is imported with
\* the two flags set.
C6_ProbeNeverRaises == modulePc # "raised"

\* C7: a get_fasta_reader(use_ecclib=True) call that falls back emits
\* exactly one fallback warning, "not installed" when the probe is not
\* available and "not working correctly" when it is available but not
\* working; a call that selects eccLib emits no fallback warning and
\* exactly one info line.
C7_OneFallbackWarningWithItsReason ==
    /\ (ret.op = "get_fasta_reader" /\ ret.use_ecclib) =>
         /\ Len(emitted) = 1
         /\ reader.kind = "pyfaidx" =>
               /\ emitted[1].level = "WARNING"
               /\ ~ECCLIB_AVAILABLE => emitted[1] = LogNotInstalled
               /\ ECCLIB_AVAILABLE => (~ECCLIB_WORKING /\ emitted[1] = LogNotWorking)
         /\ reader.kind = "ecclib" =>
               /\ emitted[1].level = "INFO" /\ emitted[1] = LogUsingEccLib
               /\ FallbackWarnings(emitted) = {}
    /\ (ret.op = "get_fasta_reader" /\ ~ret.use_ecclib) => emitted = <<>>
    /\ (ret.op = "create_fasta_reader" /\ ret.use_ecclib) =>
         /\ ret.loads[1] = "pyfaidx" =>
               /\ Cardinality(FallbackWarnings(emitted)) = 1
               /\ emitted[1] = IF ECCLIB_AVAILABLE THEN LogNotWorking ELSE LogNotInstalled
         /\ ret.loads[1] = "ecclib" =>
               /\ FallbackWarnings(emitted) = {}
               /\ emitted[1] = LogUsingEccLib

C7_Witness_InstalledButNotWorking ==
    /\ ret.op = "get_fasta_reader" /\ ret.use_ecclib
    /\ ECCLIB_AVAILABLE /\ ~ECCLIB_WORKING
    /\ reader.kind = "pyfaidx"
    /\ emitted = <<LogNotWorking>>

\* C8: indexing an EccLibChromosomeRecord for chromosome c: a slice key
\* gives what get_sequence(c, start, stop) of the backing reader gives; an
\* integer key at an offset of the loaded sequence gives the letter at that
\* offset; a key of any other type raises TypeError naming the key's type
\* and leaves the reader as it was.
C8_RecordIndexingContract ==
    [][ret'.op = "record_getitem" =>
          /\ ret'.key.type = "slice" =>
                /\ ret'.exc = get_sequence(reader, ret'.chr_id, ret'.key.start, ret'.key.stop).exc
                /\ ret'.val = get_sequence(reader, ret'.chr_id, ret'.key.start, ret'.key.stop).val
                /\ reader' = get_sequence(reader, ret'.chr_id, ret'.key.start, ret'.key.stop).reader
          /\ (/\ ret'.key.type = "int"
              /\ loadHist.last = "ok"
              /\ ret'.chr_id \in FileIds(CurrentFile(reader))
              /\ ret'.key.val \in 0..(Len(FileSeq(CurrentFile(reader), ret'.chr_id)) - 1))
             => /\ ret'.exc = "None"
                /\ ret'.val = <<FileSeq(CurrentFile(reader), ret'.chr_id)[ret'.key.val + 1]>>
          /\ ret'.key.type \notin {"slice", "int"} =>
                /\ ret'.exc = "TypeError"
                /\ ret'.val[Len(ret'.val)] = ret'.key.type
                /\ reader' = reader]_vars

C8_Witness_TypeErrorNamesTheType ==
    /\ ret.op = "record_getitem" /\ ret.key.type = "str"
    /\ ret.exc = "TypeError" /\ ret.val[2] = "str"
    /\ loadHist.last = "ok"

\* C9: after a successful load of the EccLibFASTAReader the sequence cache
\* holds exactly one entry per chromosome id of the parsed file, each the
\* full sequence of that chromosome.
C9_CacheIsExactlyTheParsedFile ==
    (reader.kind = "ecclib" /\ loadHist.last = "ok") =>
        /\ DOMAIN reader.sequence_cache = FileIds(CurrentFile(reader))
        /\ \A c \in FileIds(CurrentFile(reader)) :
               reader.sequence_cache[c] = FileSeq(CurrentFile(reader), c)

\* C10 (as claimed): EccLibFASTAReader.load leaves the same state whether
\* or not an index path is supplied, and whenever one is supplied it emits
\* a debug/info-level notice that it is ignored.
C10_IndexIgnoredWithNotice ==
    [][(ret'.op = "load" /\ ret'.kind = "ecclib") =>
          /\ reader' = EccLoad(reader, ret'.path, None).reader
          /\ ret'.exc = EccLoad(reader, ret'.path, None).exc
          /\ ~IsNone(ret'.index_path) =>
                \E i \in 1..Len(emitted') : emitted'[i].level \in {"DEBUG", "INFO"}]_vars

\* C10 (amended): EccLibFASTAReader.load leaves the same state and the same
\* outcome whether or not an index path is supplied (on success the parsed
\* file is fasta_path and every chromosome of it is cached), and it emits
\* no notice about the index path: its only log line is the warning of a
\* failed parse.
C10_IndexIgnoredSilently ==
    [][(ret'.op = "load" /\ ret'.kind = "ecclib") =>
          /\ reader' = EccLoad(reader, ret'.path, None).reader
          /\ ret'.exc = EccLoad(reader, ret'.path, None).exc
          /\ ret'.exc = "None" =>
                /\ reader'.fasta_data = Some(ret'.path)
                /\ \A c \in FileIds(ret'.path) :
                       /\ c \in DOMAIN reader'.sequence_cache
                       /\ reader'.sequence_cache[c] = FileSeq(ret'.path, c)
                /\ emitted' = <<>>
          /\ ret'.exc # "None" => emitted' = <<LogParsingFailed(ret'.exc)>>]_vars

C10_Witness_LoadWithIndexPath ==
    /\ ret.op = "load" /\ ret.kind = "ecclib"
    /\ ret.index_path = Some("ref.fai")
    /\ ret.exc = "None" /\ emitted = <<>>
    /\ reader.fasta_data = Some(ret.path)

====
